---- MODULE Spec2Model ----
(***************************************************************************)
(* Model of the PU risk estimators of src/src/nnPU/loss.py (_PULoss and    *)
(* its subclasses nnPUccLoss, nnPUssLoss, uPUccLoss, uPUssLoss and         *)
(* DRPUccLoss) and of the Experiment drivers of src/src/nnPU/              *)
(* run_experiment.py and src/src/nnPUss/run_experiment.py: the epochs of   *)
(* run, the evaluation phases, the classification rules, the               *)
(* decision-threshold arithmetic of test_on_new_data_with_new_pi and the   *)
(* prior estimation of estimate_ratio_prior.                               *)
(*                                                                         *)
(* Numbers are exact rationals <<numerator, denominator>> in lowest terms  *)
(* with a positive denominator.  A score of a sigmoid-surrogate estimator  *)
(* is an integer s that stands for the logit s * ln 3, whose sigmoid is    *)
(* the rational 3^s / (3^s + 1); DRPUccLoss, which never applies a         *)
(* sigmoid, reads the integer s as the real number s.                      *)
(***************************************************************************)
EXTENDS Integers, Sequences, FiniteSets, TLC

VARIABLES
    pc,        \* "start" before construction, then "constructed" or "failed"
    ctor,      \* arguments of the construction attempt, or NoValue
    inst,      \* the estimator instance's configuration, or NoInstance
    history,   \* the instance's five history lists
    x,         \* scores given to the last forward call
    target,    \* labels given to the last forward call
    locals,    \* local values of the last forward call that completed
    ret,       \* value returned by the last forward call, or NoValue
    raised,    \* error raised by the last operation, or "none"
    returned,  \* losses returned by the completed forward calls, in order
    fed,       \* number of examples given to forward so far
    thr,       \* test_on_new_data_with_new_pi of nnPU: priors and thresholds
    thrss,     \* test_on_new_data_with_new_pi of nnPUss: priors and threshold
    cl,        \* one model output and the predictions the drivers made for it
    run,       \* Experiment.run: its position, counters and recorded metrics
    est        \* estimate_ratio_prior and the use of the prior it returns

vars == <<pc, ctor, inst, history, x, target, locals, ret, raised, returned, fed,
          thr, thrss, cl, run, est>>

estimatorVars == <<pc, ctor, inst, history, x, target, locals, ret, raised,
                   returned, fed>>

thresholdVars == <<thr, thrss>>

driverVars == <<cl, run, est>>

(***************************************************************************)
(* Bounds of the model.                                                    *)
(***************************************************************************)
\* Total number of examples one instance is given over all its forward calls.
MaxFed == 2
\* Largest number of epochs of a run, of batches of its training loader and
\* of batches of a loader it evaluates on.
MaxEpochs == 2
MaxTrainBatches == 2
MaxTestBatches == 1

(***************************************************************************)
(* Exact rational arithmetic.                                              *)
(***************************************************************************)
Abs(a) == IF a < 0 THEN -a ELSE a

RECURSIVE GCD(_, _)
GCD(a, b) == IF b = 0 THEN a ELSE GCD(b, a % b)

\* n / d in lowest terms.  A zero denominator gives what the float division
\* gives: <<1, 0>> and <<-1, 0>> are the infinities, <<0, 0>> is not-a-number.
Rat(n, d) ==
    LET g == GCD(Abs(n), Abs(d))
        s == IF d < 0 THEN -1 ELSE 1
    IN  IF g = 0 THEN <<0, 0>> ELSE <<(s * n) \div g, (s * d) \div g>>

Zero == Rat(0, 1)
One == Rat(1, 1)
Half == Rat(1, 2)

RInt(k) == Rat(k, 1)
RAdd(a, b) == Rat(a[1] * b[2] + b[1] * a[2], a[2] * b[2])
RNeg(a) == <<-a[1], a[2]>>
RSub(a, b) == RAdd(a, RNeg(b))
RMul(a, b) == Rat(a[1] * b[1], a[2] * b[2])
RDiv(a, b) == Rat(a[1] * b[2], a[2] * b[1])
RLt(a, b) == a[1] * b[2] < b[1] * a[2]
RLe(a, b) == a[1] * b[2] <= b[1] * a[2]

RECURSIVE RSum(_)
RSum(seq) == IF seq = <<>> THEN Zero ELSE RAdd(Head(seq), RSum(Tail(seq)))

RECURSIVE Pow3(_)
Pow3(k) == IF k = 0 THEN 1 ELSE 3 * Pow3(k - 1)

\* torch.sigmoid at the logit s * ln 3.
Sigmoid(s) == IF s >= 0 THEN Rat(Pow3(s), Pow3(s) + 1) ELSE Rat(1, Pow3(-s) + 1)

(***************************************************************************)
(* Inputs.                                                                 *)
(***************************************************************************)
\* No value (Python None, or nothing returned); a rational is never <<>>.
NoValue == <<>>
\* Not-a-number, as torch.mean of an empty tensor gives.
NaN == <<0, 0>>
IsNaN(v) == v[2] = 0

Classes == {"nnPUcc", "nnPUss", "uPUcc", "uPUss", "DRPUcc"}
SigmoidClasses == Classes \ {"DRPUcc"}

\* Priors offered to the constructors: inside, on the border of and outside (0, 1).
Priors == {Rat(-1, 4), Zero, Rat(1, 4), Half, One, Rat(5, 4)}

\* The prior arguments of a construction: a number, or None (NoValue).
PriorArgs == Priors \cup {NoValue}

\* (gamma, beta) pairs offered to the constructors; (1, 0) are the defaults.
\* Both parameters are non-negative, as in the nnPU risk they belong to.
GammaBeta == {<<One, Zero>>, <<Half, Rat(1, 16)>>}

\* alpha arguments offered to DRPUccLoss.
Alphas == {NoValue, Rat(3, 4)}

Scores == {-1, 0, 1}

positive == 1
unlabeled == -1
min_count == 1

Labels == {positive, unlabeled}

SeqsUpTo(S, n) == UNION {[1..k -> S] : k \in 0..n}

EmptyHistory ==
    [labeled_component_history |-> <<>>,
     whole_distribution_cc_component_history |-> <<>>,
     whole_distribution_ss_component_history |-> <<>>,
     pu_scar_correction_component_history |-> <<>>,
     calculated_loss_history |-> <<>>]

NoInstance == [name |-> "none"]
NoLocals == [name |-> "none"]

(***************************************************************************)
(* Construction: _PULoss.__init__ and the subclasses' __init__.            *)
(***************************************************************************)
\* The range check with the borders let through.
PriorInRangeClosed(prior) == RLe(Zero, prior) /\ RLe(prior, One)

\* "if not 0 < prior < 1: raise NotImplementedError"
PriorInRange(prior) == RLt(Zero, prior) /\ RLt(prior, One)

\* The nnPU flag each subclass passes to _PULoss.__init__.
NnPUFlag(cls) == cls \in {"nnPUcc", "nnPUss"}

\* The single_sample flag were uPUssLoss to pass single_sample=False.
SingleSampleFlagNnPUOnly(cls) == cls = "nnPUss"

\* The single_sample flag each subclass passes to _PULoss.__init__.
SingleSampleFlag(cls) == cls \in {"nnPUss", "uPUss"}

PULossInit(cls, prior, gamma, beta, nnPU, single_sample) ==
    [name |-> cls, prior |-> prior, gamma |-> gamma, beta |-> beta,
     nnPU |-> nnPU, single_sample |-> single_sample, alpha |-> NoValue]

\* DRPUccLoss.__init__ had the prior been only the default of alpha, used
\* when no alpha is given.
DRPUInitAlphaFirst(base, alpha) ==
    [base EXCEPT !.alpha = IF alpha # NoValue THEN alpha ELSE base.prior]

\* DRPUccLoss.__init__ after super().__init__: alpha is set from the
\* argument and then overwritten by the prior when the prior is not None.
DRPUInit(base, alpha) ==
    [base EXCEPT !.alpha = IF base.prior # NoValue THEN base.prior ELSE alpha]

NewInstance(cls, prior, gamma, beta, alpha) ==
    LET base == PULossInit(cls, prior, gamma, beta,
                           NnPUFlag(cls), SingleSampleFlag(cls))
    IN  IF cls = "DRPUcc" THEN DRPUInit(base, alpha) ELSE base

Construct ==
    /\ pc = "start"
    /\ \E cls \in Classes, prior \in PriorArgs, gb \in GammaBeta,
          alpha \in Alphas :
          \* only DRPUccLoss.__init__ takes an alpha argument
          /\ cls # "DRPUcc" => alpha = NoValue
          /\ IF prior = NoValue
             THEN \* "0 < prior" of an int and None raises TypeError
                  /\ inst' = NoInstance
                  /\ pc' = "failed"
                  /\ raised' = "TypeError"
             ELSE IF PriorInRange(prior)
             THEN /\ inst' = NewInstance(cls, prior, gb[1], gb[2], alpha)
                  /\ pc' = "constructed"
                  /\ raised' = "none"
             ELSE /\ inst' = NoInstance
                  /\ pc' = "failed"
                  /\ raised' = "NotImplementedError"
          /\ ctor' = [cls |-> cls, prior |-> prior, gamma |-> gb[1],
                            beta |-> gb[2], alpha |-> alpha]
    /\ history' = EmptyHistory
    /\ UNCHANGED <<x, target, locals, ret, returned, fed, thresholdVars, driverVars>>

(***************************************************************************)
(* _PULoss.forward: the sigmoid-surrogate risk.                            *)
(***************************************************************************)
\* The shape assertion left out.
ShapesEqualUnchecked(xs, ts) == TRUE

\* "assert x.shape == target.shape" for one-dimensional tensors.
ShapesEqual(xs, ts) == Len(xs) = Len(ts)

\* (target == v).type(torch.float)
Mask(ts, v) == [i \in DOMAIN ts |-> IF ts[i] = v THEN 1 ELSE 0]

RECURSIVE SumInts(_)
SumInts(seq) == IF seq = <<>> THEN 0 ELSE Head(seq) + SumInts(Tail(seq))

\* The count without its floor.
FlooredCountUnfloored(mask) == SumInts(mask)

\* torch.max(self.min_count, torch.sum(mask))
FlooredCount(mask) ==
    IF SumInts(mask) > min_count THEN SumInts(mask) ELSE min_count

\* The default loss: lambda x: torch.sigmoid(-x)
loss_func(s) == Sigmoid(-s)

\* torch.sum(mask * y), an elementwise product summed
RECURSIVE SumOver(_, _, _)
SumOver(mask, y, I) ==
    IF I = {} THEN Zero
    ELSE LET i == CHOOSE j \in I : TRUE
         IN  RAdd(RMul(RInt(mask[i]), y[i]), SumOver(mask, y, I \ {i}))

MaskedSum(mask, y) == SumOver(mask, y, DOMAIN mask \cap DOMAIN y)

\* The negative risk taken from the single-sample value whatever the flag.
NegativeRiskAlwaysSS(single_sample, c1_cc, c1_ss, c2) == RSub(c1_ss, c2)

\* "if not self.single_sample: cc - c2 else: ss - c2"
NegativeRisk(single_sample, c1_cc, c1_ss, c2) ==
    IF ~single_sample THEN RSub(c1_cc, c2) ELSE RSub(c1_ss, c2)

\* Loss with the factor gamma left out of the corrected branch.
LossWithoutGamma(nnPU, gamma, beta, positive_risk, negative_risk) ==
    IF nnPU /\ RLt(negative_risk, RNeg(beta))
    THEN RNeg(negative_risk)
    ELSE RAdd(positive_risk, negative_risk)

\* Loss with the nnPU flag left out of the branch condition.
LossIgnoringFlag(nnPU, gamma, beta, positive_risk, negative_risk) ==
    IF RLt(negative_risk, RNeg(beta))
    THEN RMul(RNeg(gamma), negative_risk)
    ELSE RAdd(positive_risk, negative_risk)

\* The loss with the loss of the previous call added to it.
LossAccumulated(nnPU, gamma, beta, positive_risk, negative_risk) ==
    LET loss == IF nnPU /\ RLt(negative_risk, RNeg(beta))
                THEN RMul(RNeg(gamma), negative_risk)
                ELSE RAdd(positive_risk, negative_risk)
        h == history.calculated_loss_history
    IN  IF h = <<>> THEN loss ELSE RAdd(loss, h[Len(h)])

\* "if self.nnPU and negative_risk < -self.beta: -gamma * negative_risk
\*  else: positive_risk + negative_risk"
Loss(nnPU, gamma, beta, positive_risk, negative_risk) ==
    IF nnPU /\ RLt(negative_risk, RNeg(beta))
    THEN RMul(RNeg(gamma), negative_risk)
    ELSE RAdd(positive_risk, negative_risk)

\* The local values of _PULoss.forward after its assert.
PULocals(self, xs, ts) ==
    LET positive_mask == Mask(ts, positive)
        unlabeled_mask == Mask(ts, unlabeled)
        n_positive == FlooredCount(positive_mask)
        n_unlabeled == FlooredCount(unlabeled_mask)
        n == n_positive + n_unlabeled
        y_positive == [i \in DOMAIN xs |-> loss_func(xs[i])]
        y_unlabeled == [i \in DOMAIN xs |-> loss_func(-xs[i])]
        positive_risk ==
            RDiv(RMul(self.prior, MaskedSum(positive_mask, y_positive)),
                 RInt(n_positive))
        negative_risk_c1_cc ==
            RDiv(MaskedSum(unlabeled_mask, y_unlabeled), RInt(n_unlabeled))
        negative_risk_c1_ss == RDiv(RSum(y_unlabeled), RInt(n))
        negative_risk_c2 ==
            RDiv(RMul(self.prior, MaskedSum(positive_mask, y_unlabeled)),
                 RInt(n_positive))
        negative_risk ==
            NegativeRisk(self.single_sample, negative_risk_c1_cc,
                         negative_risk_c1_ss, negative_risk_c2)
    IN  [name |-> self.name,
         n_positive |-> n_positive,
         n_unlabeled |-> n_unlabeled,
         n |-> n,
         positive_risk |-> positive_risk,
         negative_risk_c1_cc |-> negative_risk_c1_cc,
         negative_risk_c1_ss |-> negative_risk_c1_ss,
         negative_risk_c2 |-> negative_risk_c2,
         negative_risk |-> negative_risk,
         loss |-> Loss(self.nnPU, self.gamma, self.beta,
                       positive_risk, negative_risk)]

\* _save_history with the append to calculated_loss_history left out.
SaveHistoryWithoutLoss(h, positive_risk, c1_cc, c1_ss, c2, loss) ==
    [labeled_component_history |->
         Append(h.labeled_component_history, positive_risk),
     whole_distribution_cc_component_history |->
         Append(h.whole_distribution_cc_component_history, c1_cc),
     whole_distribution_ss_component_history |->
         Append(h.whole_distribution_ss_component_history, c1_ss),
     pu_scar_correction_component_history |->
         Append(h.pu_scar_correction_component_history, c2),
     calculated_loss_history |-> h.calculated_loss_history]

\* _save_history inserting at the front of each list.
SaveHistoryAtFront(h, positive_risk, c1_cc, c1_ss, c2, loss) ==
    [labeled_component_history |->
         <<positive_risk>> \o h.labeled_component_history,
     whole_distribution_cc_component_history |->
         <<c1_cc>> \o h.whole_distribution_cc_component_history,
     whole_distribution_ss_component_history |->
         <<c1_ss>> \o h.whole_distribution_ss_component_history,
     pu_scar_correction_component_history |->
         <<c2>> \o h.pu_scar_correction_component_history,
     calculated_loss_history |->
         <<loss>> \o h.calculated_loss_history]

\* _save_history with the two unlabeled-risk values in each other's list.
SaveHistorySwappedUnlabeled(h, positive_risk, c1_cc, c1_ss, c2, loss) ==
    [labeled_component_history |->
         Append(h.labeled_component_history, positive_risk),
     whole_distribution_cc_component_history |->
         Append(h.whole_distribution_cc_component_history, c1_ss),
     whole_distribution_ss_component_history |->
         Append(h.whole_distribution_ss_component_history, c1_cc),
     pu_scar_correction_component_history |->
         Append(h.pu_scar_correction_component_history, c2),
     calculated_loss_history |->
         Append(h.calculated_loss_history, loss)]

\* _PULoss._save_history: one append to each list.
SaveHistory(h, positive_risk, c1_cc, c1_ss, c2, loss) ==
    [labeled_component_history |->
         Append(h.labeled_component_history, positive_risk),
     whole_distribution_cc_component_history |->
         Append(h.whole_distribution_cc_component_history, c1_cc),
     whole_distribution_ss_component_history |->
         Append(h.whole_distribution_ss_component_history, c1_ss),
     pu_scar_correction_component_history |->
         Append(h.pu_scar_correction_component_history, c2),
     calculated_loss_history |->
         Append(h.calculated_loss_history, loss)]

(***************************************************************************)
(* DRPUccLoss.forward: the density-ratio risk.  Values may be NaN.         *)
(***************************************************************************)
NAdd(a, b) == IF IsNaN(a) \/ IsNaN(b) THEN NaN ELSE RAdd(a, b)
NSub(a, b) == IF IsNaN(a) \/ IsNaN(b) THEN NaN ELSE RSub(a, b)
NMul(a, b) == IF IsNaN(a) \/ IsNaN(b) THEN NaN ELSE RMul(a, b)

\* x[mask]: the scores whose label is v, in order
RECURSIVE Select(_, _, _)
Select(xs, ts, v) ==
    IF xs = <<>> \/ ts = <<>> THEN <<>>
    ELSE IF Head(ts) = v
         THEN <<Head(xs)>> \o Select(Tail(xs), Tail(ts), v)
         ELSE Select(Tail(xs), Tail(ts), v)

\* torch.mean: NaN on an empty tensor
Mean(seq) == IF seq = <<>> THEN NaN ELSE RDiv(RSum(seq), RInt(Len(seq)))

\* The default loss pair: f(x) = square(x - 1) / 2, df(x) = x - 1
f(v) == RDiv(RMul(RSub(v, One), RSub(v, One)), RInt(2))
df(v) == RSub(v, One)
f_dual(v) == RSub(RMul(v, df(v)), f(v))
f_nn(v) == RSub(f_dual(v), f_dual(RMul(Zero, v)))

\* The branch with E_n = beta sent to the corrected side.
DRPULossStrict(gamma, beta, E_pp, E_n, E_u) ==
    IF RLt(beta, E_n)
    THEN RAdd(RAdd(E_pp, IF RLt(Zero, E_n) THEN E_n ELSE Zero),
              f_dual(RMul(Zero, E_u)))
    ELSE RMul(RNeg(gamma), E_n)

\* "if E_n >= self.beta: E_pp + max(0, E_n) + self.f_dual(0 * E_u)
\*  else: -self.gamma * E_n"
DRPULoss(gamma, beta, E_pp, E_n, E_u) ==
    IF RLe(beta, E_n)
    THEN RAdd(RAdd(E_pp, IF RLt(Zero, E_n) THEN E_n ELSE Zero),
              f_dual(RMul(Zero, E_u)))
    ELSE RMul(RNeg(gamma), E_n)

\* The local values of DRPUccLoss.forward after its assert.  A NaN among
\* E_n, E_pp, E_u is replaced by the Python int 0; torch.square inside
\* f_dual rejects an int, so the E_n >= beta branch raises TypeError when
\* E_u was replaced.
DRPULocals(self, xs, ts) ==
    LET y_positive == Select(xs, ts, positive)
        y_unlabeled == Select(xs, ts, unlabeled)
        E_pp0 == Mean([i \in DOMAIN y_positive |->
                         RAdd(RNeg(df(RInt(y_positive[i]))),
                              RMul(self.alpha, f_nn(RInt(y_positive[i]))))])
        E_pn == Mean([i \in DOMAIN y_positive |-> f_nn(RInt(y_positive[i]))])
        E_u0 == Mean([i \in DOMAIN y_unlabeled |-> f_nn(RInt(y_unlabeled[i]))])
        E_n0 == NSub(E_u0, NMul(self.alpha, E_pn))
        E_n == IF IsNaN(E_n0) THEN Zero ELSE E_n0
        E_pp == IF IsNaN(E_pp0) THEN Zero ELSE E_pp0
        E_u == IF IsNaN(E_u0) THEN Zero ELSE E_u0
        upper == RLe(self.beta, E_n)
    IN  [name |-> self.name,
         E_pp |-> E_pp, E_pn |-> E_pn, E_u |-> E_u, E_n |-> E_n,
         E_u_is_int |-> IsNaN(E_u0),
         upper |-> upper,
         raises |-> upper /\ IsNaN(E_u0),
         loss |-> DRPULoss(self.gamma, self.beta, E_pp, E_n, E_u)]

(***************************************************************************)
(* A forward call on the instance.                                         *)
(***************************************************************************)
Max(a, b) == IF a > b THEN a ELSE b

\* What a call counts for in the model's budget: the examples of its batch
\* (an empty batch counts as one), or the elements of both tensors when
\* their shapes differ.
Cost(xs, ts) ==
    IF Len(xs) = Len(ts) THEN Max(1, Len(xs)) ELSE Len(xs) + Len(ts)

AssertFails(xs, ts) ==
    /\ raised' = "AssertionError"
    /\ ret' = NoValue
    /\ locals' = NoLocals
    /\ UNCHANGED <<history, returned>>

PUForward(xs, ts) ==
    IF ~ShapesEqual(xs, ts)
    THEN AssertFails(xs, ts)
    ELSE /\ locals' = PULocals(inst, xs, ts)
         /\ history' = SaveHistory(history, locals'.positive_risk,
                                   locals'.negative_risk_c1_cc,
                                   locals'.negative_risk_c1_ss,
                                   locals'.negative_risk_c2, locals'.loss)
         /\ ret' = locals'.loss
         /\ returned' = Append(returned, ret')
         /\ raised' = "none"

\* DRPUccLoss.forward with a call of _save_history before its return.
DRPUForwardSavingHistory(xs, ts) ==
    IF ~ShapesEqual(xs, ts)
    THEN AssertFails(xs, ts)
    ELSE /\ locals' = DRPULocals(inst, xs, ts)
         /\ IF locals'.raises
            THEN /\ raised' = "TypeError"
                 /\ ret' = NoValue
                 /\ returned' = returned
                 /\ history' = history
            ELSE /\ raised' = "none"
                 /\ ret' = locals'.loss
                 /\ returned' = Append(returned, ret')
                 /\ history' = SaveHistory(history, locals'.E_pp, locals'.E_u,
                                           locals'.E_u, locals'.E_pn, ret')

\* DRPUccLoss.forward: the history lists are never written.
DRPUForward(xs, ts) ==
    IF ~ShapesEqual(xs, ts)
    THEN AssertFails(xs, ts)
    ELSE /\ locals' = DRPULocals(inst, xs, ts)
         /\ IF locals'.raises
            THEN /\ raised' = "TypeError"
                 /\ ret' = NoValue
                 /\ returned' = returned
            ELSE /\ raised' = "none"
                 /\ ret' = locals'.loss
                 /\ returned' = Append(returned, ret')
         /\ UNCHANGED history

Forward ==
    /\ pc = "constructed"
    /\ \E xs \in SeqsUpTo(Scores, MaxFed - fed),
          ts \in SeqsUpTo(Labels, MaxFed - fed) :
          /\ fed + Cost(xs, ts) <= MaxFed
          /\ x' = xs
          /\ target' = ts
          /\ fed' = fed + Cost(xs, ts)
          /\ IF inst.name = "DRPUcc"
             THEN DRPUForward(xs, ts)
             ELSE PUForward(xs, ts)
    /\ UNCHANGED <<pc, ctor, inst, thresholdVars, driverVars>>

(***************************************************************************)
(* Decision thresholds of Experiment.test_on_new_data_with_new_pi.         *)
(***************************************************************************)
\* Priors given to the threshold computation, all in (0, 1).
PriorGrid == {Rat(1, 10), Rat(3, 10), Half, Rat(7, 10)}

\* Priors the density-ratio solver returns (estimate_ratio_prior).
RatioGrid == {Rat(1, 10), Half}

\* The threshold without the odds of the training prior.
TresWithoutTrainOdds(pi, new_pi) == RDiv(RSub(One, new_pi), new_pi)

\* The threshold with the two priors in each other's place.
TresSwapped(pi, new_pi) ==
    RMul(RDiv(new_pi, RSub(One, new_pi)), RDiv(RSub(One, pi), pi))

\* (pi / (1 - pi)) * ((1 - new_pi) / new_pi); NoValue where a division by
\* zero stops the computation.
Tres(pi, new_pi) ==
    IF RSub(One, pi) = Zero \/ new_pi = Zero
    THEN NoValue
    ELSE RMul(RDiv(pi, RSub(One, pi)), RDiv(RSub(One, new_pi), new_pi))

\* nnPU/run_experiment.py: the four thresholds of a batch, from its priors.
WithThresholds(t) ==
    [t EXCEPT !.done = TRUE,
              !.true_tres = Tres(t.pi, t.true_new_pi),
              !.km1_tres = Tres(t.pi, t.km1_pi),
              !.km2_tres = Tres(t.pi, t.km2_pi),
              !.ratio_tres = Tres(t.pi, t.ratio_pi)]

\* nnPUss/run_experiment.py: the one threshold of a batch, from its priors.
WithTres(t) ==
    [t EXCEPT !.done = TRUE, !.tres = Tres(t.pi, t.est_new_pi)]

\* nnPU/run_experiment.py: the four thresholds computed for a batch.
ComputeThresholds ==
    /\ ~thr.done
    /\ thr' = WithThresholds(thr)
    /\ UNCHANGED <<estimatorVars, thrss, driverVars>>

\* nnPUss/run_experiment.py: the one threshold computed for a batch.
ComputeTres ==
    /\ ~thrss.done
    /\ thrss' = WithTres(thrss)
    /\ UNCHANGED <<estimatorVars, thr, driverVars>>

(***************************************************************************)
(* Classification.  A model output is a float32 number; it is written      *)
(* <<k, t>> for k * ln 3 + t * eps, where eps is a positive float32 below   *)
(* 2^-25 and t is nonzero only beside k = 0.  torch.sigmoid rounds to      *)
(* float32: exp(-x) is 1 - x up to x^2, the float32 numbers next to 1 are  *)
(* 1 - 2^-24 and 1 + 2^-23, so 1 + exp(-x) is the float32 2 and the        *)
(* sigmoid the float32 0.5 whenever |x| < 2^-25.  The perturbation t       *)
(* therefore never reaches the sigmoid, while the comparison output < 0    *)
(* sees its sign.                                                          *)
(***************************************************************************)
ModelOutputs == {<<k, 0>> : k \in -2..2} \cup {<<0, -1>>, <<0, 1>>}

\* output < 0
OutputNegative(output) ==
    output[1] < 0 \/ (output[1] = 0 /\ output[2] < 0)

\* sigmoid_output = torch.sigmoid(output)
sigmoid_output(output) == Sigmoid(output[1])

\* sigmoid_output / (1 - sigmoid_output); the float32 quotient by zero is
\* the infinity.
OddsOf(output) ==
    RDiv(sigmoid_output(output), RSub(One, sigmoid_output(output)))

\* torch.where(sigmoid_output / (1 - sigmoid_output) < tres, -1, 1)
WhereOddsBelow(output, tres) ==
    IF RLt(OddsOf(output), tres) THEN -1 ELSE 1

\* torch.where(output < 0, -1, 1)
WhereOutputNegative(output) ==
    IF OutputNegative(output) THEN -1 ELSE 1

NoPred == 0

Unclassified(output) ==
    [output |-> output, y_pred |-> NoPred, test_pred |-> NoPred,
     new_data_pred |-> NoPred, true_pred |-> NoPred, km1_pred |-> NoPred,
     km2_pred |-> NoPred, ratio_pred |-> NoPred, pred |-> NoPred]

\* _train: the prediction counted in the training accuracy.
TrainPredict ==
    /\ cl.y_pred = NoPred
    /\ cl' = [cl EXCEPT !.y_pred = WhereOutputNegative(cl.output)]
    /\ UNCHANGED <<estimatorVars, thresholdVars, run, est>>

\* _test: the prediction of an evaluation batch.
TestPredict ==
    /\ cl.test_pred = NoPred
    /\ cl' = [cl EXCEPT !.test_pred = WhereOddsBelow(cl.output, One)]
    /\ UNCHANGED <<estimatorVars, thresholdVars, run, est>>

\* test_on_new_data: the prediction of a batch of the new dataset.
NewDataPredict ==
    /\ cl.new_data_pred = NoPred
    /\ cl' = [cl EXCEPT !.new_data_pred = WhereOutputNegative(cl.output)]
    /\ UNCHANGED <<estimatorVars, thresholdVars, run, est>>

\* test_on_new_data_with_new_pi of nnPU: the thresholds of the batch and
\* the four predictions made with them.
NewPiPredict ==
    /\ cl.true_pred = NoPred
    /\ thr' = WithThresholds(thr)
    /\ cl' = [cl EXCEPT
                !.true_pred = WhereOddsBelow(cl.output, thr'.true_tres),
                !.km1_pred = WhereOddsBelow(cl.output, thr'.km1_tres),
                !.km2_pred = WhereOddsBelow(cl.output, thr'.km2_tres),
                !.ratio_pred = WhereOddsBelow(cl.output, thr'.ratio_tres)]
    /\ UNCHANGED <<estimatorVars, thrss, run, est>>

\* test_on_new_data_with_new_pi of nnPUss: the threshold of the batch and
\* the prediction made with it.
NewPiPredictSS ==
    /\ cl.pred = NoPred
    /\ thrss' = WithTres(thrss)
    /\ cl' = [cl EXCEPT !.pred = WhereOddsBelow(cl.output, thrss'.tres)]
    /\ UNCHANGED <<estimatorVars, thr, run, est>>

(***************************************************************************)
(* Experiment.run: epochs of _train and _test.  The loaders' batches and   *)
(* the network's outputs are inputs of the model: each batch gives the     *)
(* estimator a vector of scores and a vector of labels.                    *)
(***************************************************************************)
NoRun == [pc |-> "none"]

\* The classes and the prior of the experiment configurations.
DriverClasses == {"nnPUcc", "uPUss"}
DriverPrior == Half

\* The batches, <<output.view(-1), labels>>, of the training loader and of
\* the loaders evaluated on.  In BadBatches the two shapes differ.
GoodBatches == {<<(<<1>>), (<<1>>)>>, <<(<<-1, 0>>), (<<1, -1>>)>>}
BadBatches == {<<(<<0, 0>>), (<<1>>)>>}
DriverBatches == GoodBatches \cup BadBatches
EvalBatches == {<<(<<0>>), (<<-1>>)>>} \cup BadBatches

NewRun(cls, num_epochs, n_train, n_test, n_new) ==
    [pc |-> "epoch", phase |-> "run", cls |-> cls, prior |-> DriverPrior,
     num_epochs |-> num_epochs, n_train |-> n_train, n_test |-> n_test,
     n_new |-> n_new, epoch |-> 0, batch_idx |-> 0, batches |-> <<>>,
     optimizer_steps |-> 0, loss |-> Zero, train_metrics |-> <<>>,
     test_metrics |-> <<>>, loss_details_history |-> <<>>,
     csv_written |-> FALSE, metrics_saved |-> FALSE, called |-> {},
     new_data_metrics |-> NoValue, new_data_metrics_file |-> NoValue]

\* The history a newly constructed estimator starts from, had the driver
\* kept one estimator for the whole run.
FreshHistoryCarriedOver == history

\* The history a newly constructed estimator starts from.
FreshHistory == EmptyHistory

\* loss_fct = self.experiment_config.PULoss(prior=self.prior): a new
\* instance with the default gamma and beta, on which nothing was called.
ConstructLoss ==
    /\ ctor' = [cls |-> run.cls, prior |-> run.prior, gamma |-> One,
               beta |-> Zero, alpha |-> NoValue]
    /\ inst' = NewInstance(run.cls, run.prior, One, Zero, NoValue)
    /\ pc' = "constructed"
    /\ raised' = "none"
    /\ history' = FreshHistory
    /\ x' = <<>>
    /\ target' = <<>>
    /\ locals' = NoLocals
    /\ ret' = NoValue
    /\ returned' = <<>>
    /\ fed' = 0

\* One call loss_fct(output.view(-1), labels) of a batch loop.
CallLoss(batch) ==
    /\ x' = batch[1]
    /\ target' = batch[2]
    /\ fed' = fed + Len(batch[1])
    /\ PUForward(batch[1], batch[2])
    /\ UNCHANGED <<pc, ctor, inst>>

\* The driver after a call of the estimator raised, had it skipped the
\* batch and gone on with the next.
AfterRaiseSkipping(r) == [r EXCEPT !.batch_idx = @ + 1]

\* The driver after a call of the estimator raised: nothing catches the
\* error, which leaves _train or _test and then run.
AfterRaise(r) == [r EXCEPT !.pc = "failed"]

\* The five means of history_means.
HistoryMeans(h) ==
    [labeled_component |-> Mean(h.labeled_component_history),
     whole_distribution_cc |-> Mean(h.whole_distribution_cc_component_history),
     whole_distribution_ss |-> Mean(h.whole_distribution_ss_component_history),
     pu_scar_correction |-> Mean(h.pu_scar_correction_component_history),
     calculated_loss |-> Mean(h.calculated_loss_history)]

\* run: the loop head enters _train, which constructs its estimator.
TrainBegin ==
    /\ run.pc = "epoch"
    /\ run.epoch < run.num_epochs
    /\ ConstructLoss
    /\ run' = [run EXCEPT !.pc = "train", !.phase = "_train",
                          !.batch_idx = 0, !.batches = <<>>, !.loss = Zero]
    /\ UNCHANGED <<thresholdVars, cl, est>>

\* _train: one batch of the training loader.
TrainBatch ==
    /\ run.pc = "train"
    /\ run.batch_idx < run.n_train
    /\ \E batch \in DriverBatches :
          /\ CallLoss(batch)
          /\ run' = IF raised' # "none"
                    THEN AfterRaise(run)
                    ELSE [run EXCEPT !.batch_idx = @ + 1,
                                     !.batches = Append(@, batch),
                                     !.loss = RAdd(@, ret'),
                                     !.optimizer_steps = @ + 1]
    /\ UNCHANGED <<thresholdVars, cl, est>>

\* _train after its loop, and run's append of the returned history means.
TrainEnd ==
    /\ run.pc = "train"
    /\ run.batch_idx = run.n_train
    /\ run' = [run EXCEPT
                 !.pc = "trained",
                 !.train_metrics =
                     Append(@, [loss |-> run.loss, epoch |-> run.epoch]),
                 !.loss_details_history =
                     Append(@, [means |-> HistoryMeans(history),
                                Epoch |-> run.epoch])]
    /\ UNCHANGED <<estimatorVars, thresholdVars, cl, est>>

\* run: _test after _train, and after the loop the last _test; it
\* constructs its estimator.
TestBegin ==
    /\ \/ run.pc = "trained"
       \/ run.pc = "epoch" /\ run.epoch = run.num_epochs
    /\ ConstructLoss
    /\ run' = [run EXCEPT
                 !.pc = "test", !.phase = "_test", !.batch_idx = 0,
                 !.batches = <<>>, !.loss = Zero,
                 !.csv_written = (run.pc = "epoch")]
    /\ UNCHANGED <<thresholdVars, cl, est>>

\* The number of batches of the loader an evaluation phase goes through.
EvalLength(r) == IF r.phase = "_test" THEN r.n_test ELSE r.n_new

\* _test, test_on_new_data, test_on_new_data_with_new_pi: one batch of the
\* loader.
TestBatch ==
    /\ run.pc = "test"
    /\ run.batch_idx < EvalLength(run)
    /\ \E batch \in EvalBatches :
          /\ CallLoss(batch)
          /\ run' = IF raised' # "none"
                    THEN AfterRaise(run)
                    ELSE [run EXCEPT !.batch_idx = @ + 1,
                                     !.batches = Append(@, batch),
                                     !.loss = RAdd(@, ret')]
    /\ UNCHANGED <<thresholdVars, cl, est>>

\* _test after its loop: the metrics are appended; the _test of the loop
\* returns to the loop head, the last one saves the metrics files.
TestEnd ==
    /\ run.pc = "test"
    /\ run.phase = "_test"
    /\ run.batch_idx = run.n_test
    /\ run' = [run EXCEPT
                 !.pc = IF run.csv_written THEN "done" ELSE "epoch",
                 !.phase = "run",
                 !.epoch = IF run.csv_written THEN @ ELSE @ + 1,
                 !.metrics_saved = run.csv_written,
                 !.test_metrics =
                     Append(@, [loss |-> RDiv(run.loss, RInt(run.n_test)),
                                epoch |-> IF run.csv_written
                                          THEN run.epoch - 1 ELSE run.epoch])]
    /\ UNCHANGED <<estimatorVars, thresholdVars, cl, est>>

\* test_on_new_data and test_on_new_data_with_new_pi, called on the
\* experiment after its run, each at most once: the method constructs its
\* estimator.
NewDataBegin ==
    /\ run.pc = "done"
    /\ \E method \in {"test_on_new_data", "test_on_new_data_with_new_pi"}
                        \ run.called :
          run' = [run EXCEPT !.pc = "test", !.phase = method,
                             !.called = @ \cup {method}, !.batch_idx = 0,
                             !.batches = <<>>, !.loss = Zero]
    /\ ConstructLoss
    /\ UNCHANGED <<thresholdVars, cl, est>>

\* test_on_new_data after its loop: the metrics are kept on the experiment.
NewDataEnd ==
    /\ run.pc = "test"
    /\ run.phase = "test_on_new_data"
    /\ run.batch_idx = run.n_new
    /\ run' = [run EXCEPT
                 !.pc = "done", !.phase = "run",
                 !.new_data_metrics =
                     [loss |-> RDiv(run.loss, RInt(run.n_new))]]
    /\ UNCHANGED <<estimatorVars, thresholdVars, cl, est>>

\* The attribute reads had they fallen back to a default on None.
NotAdjustedReadTolerant(r) == FALSE

\* self.new_data_metrics.accuracy and the reads after it: an attribute of
\* None, which new_data_metrics is until test_on_new_data sets it, does not
\* exist.
NotAdjustedReadRaises(r) == r.new_data_metrics = NoValue

\* test_on_new_data_with_new_pi after its loop: it reads the metrics
\* test_on_new_data kept, an AttributeError on the None they start as, and
\* then writes the metrics file.
NewPiEnd ==
    /\ run.pc = "test"
    /\ run.phase = "test_on_new_data_with_new_pi"
    /\ run.batch_idx = run.n_new
    /\ IF NotAdjustedReadRaises(run)
       THEN /\ raised' = "AttributeError"
            /\ run' = AfterRaise(run)
       ELSE /\ raised' = raised
            /\ run' = [run EXCEPT
                         !.pc = "done", !.phase = "run",
                         !.new_data_metrics_file =
                             [loss |-> RDiv(run.loss, RInt(run.n_new)),
                              not_adjusted |-> run.new_data_metrics]]
    /\ UNCHANGED <<pc, ctor, inst, history, x, target, locals, ret, returned,
                   fed, thresholdVars, cl, est>>

(***************************************************************************)
(* estimate_ratio_prior, and the prior it returns in                       *)
(* test_on_new_data_with_new_pi.  A loader yields batches of examples; an  *)
(* example is written [score, target, label]: the score the model gives    *)
(* it, the second element of the loader's triple, which _train compares    *)
(* the predictions with, and the third, the PU label _train gives to the   *)
(* estimator.  A PU label of +1 is only given to an example of class +1.   *)
(***************************************************************************)
NoEstimate == [pc |-> "none"]

Example(score, tgt, label) == [score |-> score, target |-> tgt, label |-> label]

LabeledPositive == Example(1, 1, 1)
UnlabeledPositive == Example(0, 1, -1)
UnlabeledNegative == Example(-1, -1, -1)

TrainBatches ==
    {<<LabeledPositive>>, <<UnlabeledNegative, LabeledPositive>>,
     <<UnlabeledPositive>>, <<LabeledPositive, UnlabeledPositive>>}

NewDataBatches ==
    {<<Example(1, 1, -1)>>, <<Example(-1, -1, -1), Example(0, 1, -1)>>}

\* The loaders of at most n batches.
Loaders(batches, n) == UNION {[1..k -> batches] : k \in 1..n}

\* preds = self.model(data): the scores of a batch, in order.
ModelScores(batch) == [i \in DOMAIN batch |-> batch[i].score]

\* preds[target == 1]: the scores of the examples whose target is 1.
RECURSIVE TargetPositiveScores(_)
TargetPositiveScores(batch) ==
    IF batch = <<>> THEN <<>>
    ELSE (IF Head(batch).target = 1 THEN <<Head(batch).score>> ELSE <<>>)
         \o TargetPositiveScores(Tail(batch))

\* np.concatenate of a list of arrays.
RECURSIVE Concatenate(_)
Concatenate(arrays) ==
    IF arrays = <<>> THEN <<>>
    ELSE Head(arrays) \o Concatenate(Tail(arrays))

\* PUsequence(num_P, num_U) of DRPU.algorithm: the sizes of the two parts.
PUsequence(num_P, num_U) == <<num_P, num_U>>

\* ratio_estimator of DRPU.algorithm: the priors it may return.
ratio_estimator == RatioGrid

NewEstimate(train_loader, new_data_loader) ==
    [pc |-> "train_loader", train_loader |-> train_loader,
     new_data_loader |-> new_data_loader, batch_idx |-> 0,
     preds_P |-> <<>>, preds_U |-> <<>>, solver_x |-> NoValue,
     solver_t |-> NoValue, prior |-> NoValue, ratio_tres |-> <<>>]

\* estimate_ratio_prior: one batch of the training loader.
EstimateTrainBatch ==
    /\ est.pc = "train_loader"
    /\ LET last == est.batch_idx + 1 = Len(est.train_loader)
           batch == est.train_loader[est.batch_idx + 1]
       IN  est' = [est EXCEPT
                     !.preds_P = Append(@, TargetPositiveScores(batch)),
                     !.batch_idx = IF last THEN 0 ELSE @ + 1,
                     !.pc = IF last THEN "new_data_loader" ELSE @]
    /\ UNCHANGED <<estimatorVars, thresholdVars, cl, run>>

\* estimate_ratio_prior: one batch of the new-data loader.
EstimateNewBatch ==
    /\ est.pc = "new_data_loader"
    /\ LET last == est.batch_idx + 1 = Len(est.new_data_loader)
           batch == est.new_data_loader[est.batch_idx + 1]
       IN  est' = [est EXCEPT
                     !.preds_U = Append(@, ModelScores(batch)),
                     !.batch_idx = IF last THEN 0 ELSE @ + 1,
                     !.pc = IF last THEN "ratio_estimator" ELSE @]
    /\ UNCHANGED <<estimatorVars, thresholdVars, cl, run>>

\* estimate_ratio_prior after its loops: the call of the solver and the
\* return of its prior, which test_on_new_data_with_new_pi keeps as
\* ratio_pi.
EstimateSolve ==
    /\ est.pc = "ratio_estimator"
    /\ \E prior \in ratio_estimator :
          LET preds_P == Concatenate(est.preds_P)
              preds_U == Concatenate(est.preds_U)
          IN  /\ est' = [est EXCEPT
                          !.pc = "batches",
                          !.solver_x = Concatenate(<<preds_P, preds_U>>),
                          !.solver_t = PUsequence(Len(preds_P), Len(preds_U)),
                          !.prior = prior]
              /\ thr' = [thr EXCEPT !.ratio_pi = prior]
    /\ UNCHANGED <<estimatorVars, thrss, cl, run>>

\* test_on_new_data_with_new_pi: the thresholds of one batch of the
\* new-data loader.
NewPiThresholds ==
    /\ est.pc = "batches"
    /\ thr' = WithThresholds(thr)
    /\ est' = [est EXCEPT
                 !.ratio_tres = Append(@, thr'.ratio_tres),
                 !.batch_idx = @ + 1,
                 !.pc = IF est.batch_idx + 1 = Len(est.new_data_loader)
                        THEN "done" ELSE @]
    /\ UNCHANGED <<estimatorVars, thrss, cl, run>>

(***************************************************************************)
(* Specifications.                                                         *)
(***************************************************************************)
InitEstimator ==
    /\ pc = "start"
    /\ ctor = NoValue
    /\ inst = NoInstance
    /\ history = EmptyHistory
    /\ x = <<>>
    /\ target = <<>>
    /\ locals = NoLocals
    /\ ret = NoValue
    /\ raised = "none"
    /\ returned = <<>>
    /\ fed = 0

ThrArgs(pi, true_new_pi, km1_pi, km2_pi, ratio_pi) ==
    [pi |-> pi, true_new_pi |-> true_new_pi, km1_pi |-> km1_pi,
     km2_pi |-> km2_pi, ratio_pi |-> ratio_pi, done |-> FALSE,
     true_tres |-> NoValue, km1_tres |-> NoValue, km2_tres |-> NoValue,
     ratio_tres |-> NoValue]

ThrssArgs(pi, est_new_pi) ==
    [pi |-> pi, est_new_pi |-> est_new_pi, done |-> FALSE, tres |-> NoValue]

\* The estimator alone: one construction, then forward calls.
Init ==
    /\ InitEstimator
    /\ thr = ThrArgs(Half, Half, Half, Half, Half)
    /\ thrss = ThrssArgs(Half, Half)
    /\ cl = Unclassified(<<0, 0>>)
    /\ run = NoRun
    /\ est = NoEstimate

Next == Construct \/ Forward

Spec == Init /\ [][Next]_vars

\* The threshold arithmetic alone, on every choice of priors.
InitThreshold ==
    /\ InitEstimator
    /\ \E pi \in PriorGrid, true_new_pi \in PriorGrid, km1_pi \in PriorGrid,
          km2_pi \in PriorGrid, ratio_pi \in RatioGrid :
          thr = ThrArgs(pi, true_new_pi, km1_pi, km2_pi, ratio_pi)
    /\ \E pi \in PriorGrid, est_new_pi \in PriorGrid :
          thrss = ThrssArgs(pi, est_new_pi)
    /\ cl = Unclassified(<<0, 0>>)
    /\ run = NoRun
    /\ est = NoEstimate

NextThreshold == ComputeThresholds \/ ComputeTres

SpecThreshold == InitThreshold /\ [][NextThreshold]_vars

\* The predictions of the drivers for one model output, on every choice of
\* the output and of the priors.
InitClassify ==
    /\ InitEstimator
    /\ \E pi \in PriorGrid, true_new_pi \in PriorGrid, km1_pi \in RatioGrid,
          est_new_pi \in PriorGrid :
          /\ thr = ThrArgs(pi, true_new_pi, km1_pi, pi, Half)
          /\ thrss = ThrssArgs(pi, est_new_pi)
    /\ \E output \in ModelOutputs : cl = Unclassified(output)
    /\ run = NoRun
    /\ est = NoEstimate

NextClassify ==
    \/ TrainPredict
    \/ TestPredict
    \/ NewDataPredict
    \/ NewPiPredict
    \/ NewPiPredictSS

SpecClassify == InitClassify /\ [][NextClassify]_vars

\* A run of the experiment, on every choice of the configuration, of the
\* loader lengths and of the batches.
InitRun ==
    /\ InitEstimator
    /\ thr = ThrArgs(Half, Half, Half, Half, Half)
    /\ thrss = ThrssArgs(Half, Half)
    /\ cl = Unclassified(<<0, 0>>)
    /\ \E cls \in DriverClasses, num_epochs \in 1..MaxEpochs,
          n_train \in 1..MaxTrainBatches, n_test \in 1..MaxTestBatches,
          n_new \in 1..MaxTestBatches :
          run = NewRun(cls, num_epochs, n_train, n_test, n_new)
    /\ est = NoEstimate

NextRun ==
    \/ TrainBegin
    \/ TrainBatch
    \/ TrainEnd
    \/ TestBegin
    \/ TestBatch
    \/ TestEnd
    \/ NewDataBegin
    \/ NewDataEnd
    \/ NewPiEnd

SpecRun == InitRun /\ [][NextRun]_vars

\* The prior estimation of test_on_new_data_with_new_pi, on every choice of
\* the two loaders and of the prior the solver returns.
InitPrior ==
    /\ InitEstimator
    /\ \E pi \in PriorGrid : thr = ThrArgs(pi, Half, Half, Half, NoValue)
    /\ thrss = ThrssArgs(Half, Half)
    /\ cl = Unclassified(<<0, 0>>)
    /\ run = NoRun
    /\ \E train_loader \in Loaders(TrainBatches, MaxTrainBatches),
          new_data_loader \in Loaders(NewDataBatches, MaxTestBatches) :
          est = NewEstimate(train_loader, new_data_loader)

NextPrior ==
    \/ EstimateTrainBatch
    \/ EstimateNewBatch
    \/ EstimateSolve
    \/ NewPiThresholds

SpecPrior == InitPrior /\ [][NextPrior]_vars

(***************************************************************************)
(* The quantities the properties are stated in, written from the batch:    *)
(* P and U are the index sets of the positive and the unlabeled examples,  *)
(* l(s) = sigmoid(-s) is the surrogate loss.                               *)
(***************************************************************************)
P(ts) == {i \in DOMAIN ts : ts[i] = 1}
U(ts) == {i \in DOMAIN ts : ts[i] = -1}

\* Sum over i in I of sigmoid(sign * xs[i]).
RECURSIVE SigSum(_, _, _)
SigSum(I, xs, sign) ==
    IF I = {} THEN Zero
    ELSE LET i == CHOOSE j \in I : TRUE
         IN  RAdd(Sigmoid(sign * xs[i]), SigSum(I \ {i}, xs, sign))

AtLeastOne(k) == IF k < 1 THEN 1 ELSE k
nP(ts) == AtLeastOne(Cardinality(P(ts)))
nU(ts) == AtLeastOne(Cardinality(U(ts)))

\* R_P+ = pi * Sum_P l(score) / n_P
RPplus(pi, xs, ts) == RDiv(RMul(pi, SigSum(P(ts), xs, -1)), RInt(nP(ts)))
\* R_P- = pi * Sum_P l(-score) / n_P
RPminus(pi, xs, ts) == RDiv(RMul(pi, SigSum(P(ts), xs, 1)), RInt(nP(ts)))
\* R_U-^cc = Sum_U l(-score) / n_U
RUcc(xs, ts) == RDiv(SigSum(U(ts), xs, 1), RInt(nU(ts)))
\* R_U-^ss = Sum over the batch of l(-score) / (n_P + n_U)
RUss(xs, ts) == RDiv(SigSum(DOMAIN xs, xs, 1), RInt(nP(ts) + nU(ts)))

\* R- = R_U- - R_P-, with the U-estimator of the named variant.
Rminus(name, pi, xs, ts) ==
    RSub(IF name \in {"nnPUss", "uPUss"} THEN RUss(xs, ts) ELSE RUcc(xs, ts),
         RPminus(pi, xs, ts))

\* The last forward call completed and returned a loss.
Returned == pc = "constructed" /\ raised = "none" /\ ret # NoValue
SigmoidReturned == Returned /\ inst.name \in SigmoidClasses
LastRminus == Rminus(inst.name, inst.prior, x, target)

HistoryLengths ==
    {Len(history.labeled_component_history),
     Len(history.whole_distribution_cc_component_history),
     Len(history.whole_distribution_ss_component_history),
     Len(history.pu_scar_correction_component_history),
     Len(history.calculated_loss_history)}

IsPrefix(s, t) == Len(s) <= Len(t) /\ \A i \in 1..Len(s) : t[i] = s[i]

Extends(h, g) ==
    /\ IsPrefix(h.labeled_component_history, g.labeled_component_history)
    /\ IsPrefix(h.whole_distribution_cc_component_history,
                g.whole_distribution_cc_component_history)
    /\ IsPrefix(h.whole_distribution_ss_component_history,
                g.whole_distribution_ss_component_history)
    /\ IsPrefix(h.pu_scar_correction_component_history,
                g.pu_scar_correction_component_history)
    /\ IsPrefix(h.calculated_loss_history, g.calculated_loss_history)

(***************************************************************************)
(* Properties.                                                             *)
(***************************************************************************)

\* C1: for nnPUcc and nnPUss, whenever the unconstrained negative risk
\* R- = R_U- - R_P- of the batch is below -beta, the returned loss is exactly
\* -gamma * R-, and it is at least gamma * beta, which is at least 0
\* (gamma and beta non-negative).
C1_NonNegativeLoss ==
    (SigmoidReturned /\ inst.name \in {"nnPUcc", "nnPUss"}
       /\ RLt(LastRminus, RNeg(inst.beta)))
    => /\ ret = RMul(RNeg(inst.gamma), LastRminus)
       /\ RLe(RMul(inst.gamma, inst.beta), ret)
       /\ RLe(Zero, RMul(inst.gamma, inst.beta))

\* A nnPU call on a batch with both partitions non-empty whose negative
\* risk is below -beta, with beta > 0 and gamma # 1.
C1_Witness ==
    /\ SigmoidReturned
    /\ inst.name \in {"nnPUcc", "nnPUss"}
    /\ RLt(Zero, inst.beta)
    /\ inst.gamma # One
    /\ P(target) # {}
    /\ U(target) # {}
    /\ RLt(LastRminus, RNeg(inst.beta))

\* C2: for uPUcc and uPUss the returned loss is R_P+ + R- on every batch,
\* whatever the sign of R-: the corrected branch -gamma * R- is never taken.
C2_UnconstrainedLoss ==
    (SigmoidReturned /\ inst.name \in {"uPUcc", "uPUss"})
    => ret = RAdd(RPplus(inst.prior, x, target), LastRminus)

\* A uPU call whose negative risk is below -beta, where a nnPU variant
\* would take the corrected branch.
C2_Witness ==
    /\ SigmoidReturned
    /\ inst.name \in {"uPUcc", "uPUss"}
    /\ RLt(LastRminus, RNeg(inst.beta))
    /\ ret # RMul(RNeg(inst.gamma), LastRminus)

\* C3: on a sigmoid-surrogate instance every completed forward call appends
\* one value to each of the five series: all five have the same length, the
\* number of completed calls, and the k-th "Calculated loss" entry is the
\* loss the k-th call returned.
C3_HistoryPerCall ==
    (pc = "constructed" /\ inst.name \in SigmoidClasses)
    => /\ HistoryLengths = {Len(returned)}
       /\ history.calculated_loss_history = returned

\* Two completed calls that returned different losses.
C3_Witness ==
    /\ pc = "constructed"
    /\ inst.name \in SigmoidClasses
    /\ Len(returned) = 2
    /\ returned[1] # returned[2]
    /\ history.labeled_component_history[1]
         # history.labeled_component_history[2]

\* C4: the history is empty right after construction and append-only: every
\* step leaves each series a prefix of what it becomes.
C4_AppendOnly ==
    /\ [](pc = "constructed" /\ fed = 0 => history = EmptyHistory)
    /\ [][Extends(history, history')]_vars

\* A history of two entries whose values differ in every series.
C4_Witness ==
    /\ pc = "constructed"
    /\ HistoryLengths = {2}
    /\ history.calculated_loss_history[1] # history.calculated_loss_history[2]
    /\ history.whole_distribution_cc_component_history[1]
         # history.whole_distribution_cc_component_history[2]

\* C5: constructing any of the five estimators with a prior outside the open
\* interval (0, 1), 0 and 1 included, fails with an error and leaves no
\* instance; with a prior inside it the construction succeeds, so every
\* instance has its prior in (0, 1).
C5_PriorChecked ==
    pc # "start"
    => /\ (ctor.prior # NoValue /\ ctor.prior[1] > 0
             /\ ctor.prior[1] < ctor.prior[2])
           <=> pc = "constructed"
       /\ pc = "failed"
           => /\ inst = NoInstance
              /\ raised = IF ctor.prior = NoValue
                          THEN "TypeError" ELSE "NotImplementedError"
       /\ pc = "constructed"
           => /\ inst.name = ctor.cls
              /\ inst.prior = ctor.prior
              /\ inst.prior[1] > 0
              /\ inst.prior[1] < inst.prior[2]

\* DRPUccLoss refused with a prior of exactly 1.
C5_Witness ==
    /\ pc = "failed"
    /\ ctor.cls = "DRPUcc"
    /\ ctor.prior = One
    /\ raised = "NotImplementedError"

\* C6: a forward call whose score and label vectors differ in length fails
\* with an error, returns no loss and leaves the five history series as they
\* were.
C6_ShapeMismatch ==
    [][(fed' # fed /\ Len(x') # Len(target'))
       => /\ raised' = "AssertionError"
          /\ ret' = NoValue
          /\ history' = history
          /\ returned' = returned]_vars

\* A mismatched call that failed after a call that had recorded its values.
C6_Witness ==
    /\ pc = "constructed"
    /\ Len(x) # Len(target)
    /\ raised = "AssertionError"
    /\ HistoryLengths = {1}

\* C7: in every completed call of a sigmoid-surrogate estimator n_P >= 1
\* and n_U >= 1; with no positive example n_P is 1 and R_P+ and R_P- are 0,
\* with no unlabeled example n_U is 1 and R_U-^cc is 0, and the call returns
\* a loss.
C7_EmptyPartition ==
    SigmoidReturned
    => /\ locals.n_positive >= 1
       /\ locals.n_unlabeled >= 1
       /\ P(target) = {}
           => /\ locals.n_positive = 1
              /\ locals.positive_risk = Zero
              /\ locals.negative_risk_c2 = Zero
              /\ ret[2] > 0
       /\ U(target) = {}
           => /\ locals.n_unlabeled = 1
              /\ locals.negative_risk_c1_cc = Zero
              /\ ret[2] > 0

\* A completed call on a non-empty batch with no positive example.
C7_Witness ==
    /\ SigmoidReturned
    /\ Len(target) = 2
    /\ P(target) = {}
    /\ locals.n_positive = 1
    /\ locals.negative_risk_c1_cc # Zero

Batch == AtLeastOne(Len(x))
\* pi * mean(l(scores)) - pi * mean(l(-scores)) over the whole batch
AllPositiveValue ==
    RSub(RDiv(RMul(inst.prior, SigSum(DOMAIN x, x, -1)), RInt(Batch)),
         RDiv(RMul(inst.prior, SigSum(DOMAIN x, x, 1)), RInt(Batch)))
\* pi * mean(l(-scores)) over the whole batch
AllPositiveCorrection ==
    RDiv(RMul(inst.prior, SigSum(DOMAIN x, x, 1)), RInt(Batch))

AllPositiveCall ==
    /\ SigmoidReturned
    /\ inst.name \in {"nnPUcc", "uPUcc"}
    /\ \A i \in DOMAIN target : target[i] = 1

\* C8 as stated: with every label +1, nnPUcc and uPUcc both return
\* pi * mean(l(scores)) - pi * mean(l(-scores)).
C8_AllPositiveAsStated == AllPositiveCall => ret = AllPositiveValue

\* C8 as amended: with every label +1, uPUcc returns
\* pi * mean(l(scores)) - pi * mean(l(-scores)); nnPUcc returns that value
\* only when pi * mean(l(-scores)) <= beta, and gamma * pi * mean(l(-scores))
\* otherwise.
C8_AllPositive ==
    AllPositiveCall
    => /\ inst.name = "uPUcc" => ret = AllPositiveValue
       /\ inst.name = "nnPUcc"
           => IF RLe(AllPositiveCorrection, inst.beta)
              THEN ret = AllPositiveValue
              ELSE ret = RMul(inst.gamma, AllPositiveCorrection)

\* An all-positive batch of two on which nnPUcc takes the corrected branch.
C8_Witness ==
    /\ AllPositiveCall
    /\ inst.name = "nnPUcc"
    /\ Len(target) = 2
    /\ ~RLe(AllPositiveCorrection, inst.beta)
    /\ ret # AllPositiveValue

\* tau * (1 - pi) * new_pi = pi * (1 - new_pi), and tau > 0
IsThreshold(tau, pi, new_pi) ==
    /\ tau # NoValue
    /\ tau[2] > 0
    /\ RMul(tau, RMul(RSub(One, pi), new_pi)) = RMul(pi, RSub(One, new_pi))
    /\ RLt(Zero, tau)

\* C9: the threshold of each candidate new prior is
\* (train_prior / (1 - train_prior)) * ((1 - new_prior) / new_prior); for
\* priors in (0, 1) it is defined and positive, and it is 27/7 for a training
\* prior of 0.3 and a new prior of 0.1.
C9_Threshold ==
    /\ thr.done
        => /\ IsThreshold(thr.true_tres, thr.pi, thr.true_new_pi)
           /\ IsThreshold(thr.km1_tres, thr.pi, thr.km1_pi)
           /\ IsThreshold(thr.km2_tres, thr.pi, thr.km2_pi)
           /\ IsThreshold(thr.ratio_tres, thr.pi, thr.ratio_pi)
           /\ (thr.pi = Rat(3, 10) /\ thr.km1_pi = Rat(1, 10))
               => thr.km1_tres = Rat(27, 7)
    /\ thrss.done
        => /\ IsThreshold(thrss.tres, thrss.pi, thrss.est_new_pi)
           /\ (thrss.pi = Rat(3, 10) /\ thrss.est_new_pi = Rat(1, 10))
               => thrss.tres = Rat(27, 7)

\* Both drivers have computed the threshold of the scenario 0.3, 0.1.
C9_Witness ==
    /\ thr.done
    /\ thrss.done
    /\ thr.pi = Rat(3, 10)
    /\ thr.true_new_pi = Rat(1, 10)
    /\ thr.true_tres = Rat(27, 7)
    /\ thrss.pi = Rat(3, 10)
    /\ thrss.est_new_pi = Rat(1, 10)
    /\ thrss.tres = Rat(27, 7)

\* The (new prior, threshold) pairs the nnPU driver computed for one pi.
Candidates ==
    {<<thr.true_new_pi, thr.true_tres>>, <<thr.km1_pi, thr.km1_tres>>,
     <<thr.km2_pi, thr.km2_tres>>, <<thr.ratio_pi, thr.ratio_tres>>}

ZeroThresholdRule(output) ==
    IF output[1] > 0 \/ (output[1] = 0 /\ output[2] >= 0) THEN 1 ELSE -1

\* The predictions made with a threshold, each with its threshold.
ThresholdPredictions ==
    {<<cl.test_pred, One>>, <<cl.true_pred, thr.true_tres>>,
     <<cl.km1_pred, thr.km1_tres>>, <<cl.km2_pred, thr.km2_tres>>,
     <<cl.ratio_pred, thr.ratio_tres>>, <<cl.pred, thrss.tres>>}

\* The predictions made with the comparison of the raw score with zero.
RawPredictions == {cl.y_pred, cl.new_data_pred}

\* C11: a prediction made with a threshold is +1 if and only if the odds
\* sigmoid(score) / (1 - sigmoid(score)) are at least the threshold and -1
\* otherwise, so every prediction is -1 or +1; with the threshold 1 the
\* prediction is that of the zero-threshold rule on the raw score, for every
\* score: the rule of _test and the rule of test_on_new_data and _train
\* give the same prediction for the same score.
C11_ClassifyAsStated ==
    /\ \A pt \in ThresholdPredictions :
          pt[1] # NoPred =>
              /\ pt[1] \in {-1, 1}
              /\ pt[1] = 1 <=> RLe(pt[2], OddsOf(cl.output))
              /\ pt[2] = One => pt[1] = ZeroThresholdRule(cl.output)
    /\ \A p \in RawPredictions :
          p # NoPred =>
              /\ p = ZeroThresholdRule(cl.output)
              /\ cl.test_pred # NoPred => cl.test_pred = p

\* A negative score below the float32 resolution of the sigmoid has been
\* classified by _test and by test_on_new_data.
C11_Witness ==
    /\ cl.output = <<0, -1>>
    /\ cl.test_pred = 1
    /\ cl.new_data_pred = -1

(***************************************************************************)
(* Determinism of the estimators.                                          *)
(***************************************************************************)
\* The loss as a function of the configuration and the batch alone.
LossOf(self, xs, ts) ==
    LET rminus == Rminus(self.name, self.prior, xs, ts)
    IN  IF self.nnPU /\ RLt(rminus, RNeg(self.beta))
        THEN RMul(RNeg(self.gamma), rminus)
        ELSE RAdd(RPplus(self.prior, xs, ts), rminus)

\* A forward call that completes, following a completed call.
RepeatedCall == Returned /\ fed' # fed /\ raised' = "none"

DRPUReturned == Returned /\ inst.name = "DRPUcc"

\* C13: the DRPU estimator never accumulates history: after any number of
\* forward calls each of its five history lists is empty, and what a call
\* leaves is the loss it returned.
C13_NoHistory ==
    (pc = "constructed" /\ inst.name = "DRPUcc")
    => /\ history = EmptyHistory
       /\ HistoryLengths = {0}
       /\ Returned => ret = returned[Len(returned)]

\* A DRPU instance has completed two forward calls.
C13_Witness ==
    /\ DRPUReturned
    /\ Len(returned) = 2
    /\ x # <<>>

\* Sum over i in I of xs[i], and of xs[i] squared.
RECURSIVE ScoreSum(_, _)
ScoreSum(I, xs) ==
    IF I = {} THEN 0
    ELSE LET i == CHOOSE j \in I : TRUE IN xs[i] + ScoreSum(I \ {i}, xs)

RECURSIVE SquareSum(_, _)
SquareSum(I, xs) ==
    IF I = {} THEN 0
    ELSE LET i == CHOOSE j \in I : TRUE
         IN  xs[i] * xs[i] + SquareSum(I \ {i}, xs)

\* With f(v) = (v - 1)^2 / 2 and df(v) = v - 1: f*(v) = v * df(v) - f(v) =
\* (v^2 - 1) / 2, f*(0) = -1/2 and f*(v) - f*(0) = v^2 / 2.
FDualAtZero == RSub(RMul(Zero, RSub(Zero, One)), Rat(1, 2))

\* E_pn = mean over P of s^2 / 2
Epn(xs, ts) == Rat(SquareSum(P(ts), xs), 2 * Cardinality(P(ts)))
\* E_u = mean over U of s^2 / 2
Eu(xs, ts) == Rat(SquareSum(U(ts), xs), 2 * Cardinality(U(ts)))
\* E_pp = mean over P of -df(s) + alpha * s^2 / 2
Epp(alpha, xs, ts) ==
    RAdd(Rat(Cardinality(P(ts)) - ScoreSum(P(ts), xs), Cardinality(P(ts))),
         RMul(alpha, Epn(xs, ts)))
\* E_n = E_u - alpha * E_pn
En(alpha, xs, ts) == RSub(Eu(xs, ts), RMul(alpha, Epn(xs, ts)))

\* Both partitions of the last batch hold an example.
BothPartitions == P(target) # {} /\ U(target) # {}

LastEn == En(inst.alpha, x, target)

\* C14: on a batch with positive and unlabeled examples, with
\* E_n = E_u - alpha * E_pn: if E_n >= beta, E_n = beta included, the DRPU
\* loss is E_pp + max(0, E_n) + f*(0), where f*(0) = 0 * df(0) - f(0);
\* otherwise it is -gamma * E_n, without the E_pp term.
C14_DRPUBranch ==
    (DRPUReturned /\ BothPartitions)
    => /\ locals.E_n = LastEn
       /\ RLe(inst.beta, LastEn)
             => ret = RAdd(RAdd(Epp(inst.alpha, x, target),
                                IF RLt(Zero, LastEn) THEN LastEn ELSE Zero),
                           FDualAtZero)
       /\ RLt(LastEn, inst.beta) => ret = RMul(RNeg(inst.gamma), LastEn)

\* A DRPU call on a batch with both partitions whose E_n equals beta.
C14_Witness ==
    /\ DRPUReturned
    /\ BothPartitions
    /\ LastEn = inst.beta
    /\ ret # RMul(RNeg(inst.gamma), LastEn)

\* The last call was a DRPU forward call on tensors of equal shape.
DRPUCalled ==
    /\ pc = "constructed"
    /\ inst.name = "DRPUcc"
    /\ fed > 0
    /\ Len(x) = Len(target)

\* C15: on a batch whose positive partition or whose unlabeled partition is
\* empty, each of E_pp, E_u, E_n that is not a number is replaced by 0, and
\* the DRPU forward call completes without raising and returns a loss that
\* is a number, in the empty-positive and in the empty-unlabeled case.
C15_DegenerateAsStated ==
    (DRPUCalled /\ ~BothPartitions)
    => /\ raised = "none"
       /\ ret # NoValue
       /\ ~IsNaN(ret)
       /\ P(target) = {} => locals.E_pp = Zero /\ locals.E_n = Zero
       /\ U(target) = {} => locals.E_u = Zero /\ locals.E_n = Zero

\* A DRPU call with beta = 0 on a batch of positive examples only has
\* raised.
C15_Witness ==
    /\ DRPUCalled
    /\ P(target) # {}
    /\ U(target) = {}
    /\ inst.beta = Zero
    /\ raised = "TypeError"

(***************************************************************************)
(* The unlabeled-risk estimators and the four variants.                    *)
(***************************************************************************)
Last(seq) == seq[Len(seq)]

\* C19: R_U-^cc is the sum over U of l(-score) divided by n_U and R_U-^ss
\* the sum over the whole batch of l(-score) divided by n = n_P + n_U; the
\* negative risk is built on the cc value if and only if the variant is not
\* single-sample, and both values are recorded in the history by every
\* call; when both partitions are non-empty n is the batch length and
\* R_U-^ss the mean of l(-score) over the batch.
C19_UnlabeledRisk ==
    SigmoidReturned
    => /\ Last(history.whole_distribution_cc_component_history)
            = RDiv(SigSum(U(target), x, 1), RInt(nU(target)))
       /\ Last(history.whole_distribution_ss_component_history)
            = RDiv(SigSum(DOMAIN x, x, 1), RInt(nP(target) + nU(target)))
       /\ locals.n = nP(target) + nU(target)
       /\ locals.negative_risk
            = RSub(IF inst.single_sample
                   THEN Last(history.whole_distribution_ss_component_history)
                   ELSE Last(history.whole_distribution_cc_component_history),
                   RPminus(inst.prior, x, target))
       /\ inst.single_sample <=> inst.name \in {"nnPUss", "uPUss"}
       /\ BothPartitions
            => /\ locals.n = Len(x)
               /\ Last(history.whole_distribution_ss_component_history)
                    = RDiv(SigSum(DOMAIN x, x, 1), RInt(Len(x)))

\* A single-sample call on a batch with both partitions whose two
\* unlabeled-risk values differ.
C19_Witness ==
    /\ SigmoidReturned
    /\ inst.single_sample
    /\ BothPartitions
    /\ RUcc(x, target) # RUss(x, target)
    /\ locals.negative_risk # RSub(RUcc(x, target),
                                   RPminus(inst.prior, x, target))

\* The local values the variant cls computes for the last batch when it is
\* constructed with the prior, gamma and beta of the instance.
VariantLocals(cls) ==
    PULocals(NewInstance(cls, inst.prior, inst.gamma, inst.beta, NoValue),
             x, target)

\* The variant with the other nnPU flag and the same cc/ss choice.
Counterpart(cls) ==
    CASE cls = "nnPUcc" -> "uPUcc"
      [] cls = "uPUcc" -> "nnPUcc"
      [] cls = "nnPUss" -> "uPUss"
      [] cls = "uPUss" -> "nnPUss"

\* C20: the four variants are one algorithm under the flag pairs
\* nnPUcc = (nnPU, cc), nnPUss = (nnPU, ss), uPUcc = (uPU, cc) and
\* uPUss = (uPU, ss): with the same prior, gamma, beta and batch all four
\* record the same R_P+, R_U-^cc, R_U-^ss and R_P- entries, and a nnPU
\* variant returns the loss of the uPU variant with the same cc/ss choice
\* whenever R- >= -beta, R- = -beta included; the two losses differ only
\* when R- < -beta.
C20_OneAlgorithm ==
    SigmoidReturned
    => /\ inst.nnPU <=> inst.name \in {"nnPUcc", "nnPUss"}
       /\ inst.single_sample <=> inst.name \in {"nnPUss", "uPUss"}
       /\ \A cls \in SigmoidClasses :
             LET other == VariantLocals(cls)
             IN  /\ other.positive_risk = Last(history.labeled_component_history)
                 /\ other.negative_risk_c1_cc
                      = Last(history.whole_distribution_cc_component_history)
                 /\ other.negative_risk_c1_ss
                      = Last(history.whole_distribution_ss_component_history)
                 /\ other.negative_risk_c2
                      = Last(history.pu_scar_correction_component_history)
       /\ LET twin == VariantLocals(Counterpart(inst.name))
          IN  /\ twin.negative_risk = LastRminus
              /\ RLe(RNeg(inst.beta), LastRminus) => twin.loss = ret
              /\ twin.loss # ret => RLt(LastRminus, RNeg(inst.beta))

\* A nnPU call on a batch with both partitions whose R- equals -beta, and
\* whose loss is not what the corrected branch would give.
C20_Witness ==
    /\ SigmoidReturned
    /\ inst.nnPU
    /\ BothPartitions
    /\ LastRminus = RNeg(inst.beta)
    /\ ret = VariantLocals(Counterpart(inst.name)).loss
    /\ ret # RMul(RNeg(inst.gamma), LastRminus)

(***************************************************************************)
(* The estimator in the driver.                                            *)
(***************************************************************************)
InPhase(r) == r.pc \in {"train", "test"}

\* The means, over a sequence of batches, of the five quantities an
\* estimator of configuration self records for a batch.
BatchMeans(self, batches) ==
    LET Over(Q(_, _)) ==
            Mean([i \in DOMAIN batches |-> Q(batches[i][1], batches[i][2])])
        Pplus(xs, ts) == RPplus(self.prior, xs, ts)
        Pminus(xs, ts) == RPminus(self.prior, xs, ts)
        Lss(xs, ts) == LossOf(self, xs, ts)
    IN  [labeled_component |-> Over(Pplus),
         whole_distribution_cc |-> Over(RUcc),
         whole_distribution_ss |-> Over(RUss),
         pu_scar_correction |-> Over(Pminus),
         calculated_loss |-> Over(Lss)]

\* C17: every training epoch and every evaluation phase constructs an
\* estimator of its own, with an empty history, and calls it once for each
\* batch; so when _train ends every series of the history has as many
\* entries as the epoch had batches, and the means recorded for the epoch
\* are the means over the training batches of that epoch alone.
C17_Lifecycle ==
    /\ [][(InPhase(run') /\ ~InPhase(run))
            => /\ history' = EmptyHistory
               /\ returned' = <<>>
               /\ inst' = NewInstance(run.cls, run.prior, One, Zero, NoValue)
               /\ run'.batch_idx = 0]_vars
    /\ [][(InPhase(run) /\ InPhase(run') /\ run'.batch_idx # run.batch_idx)
            => /\ run'.batch_idx = run.batch_idx + 1
               /\ HistoryLengths' = {Len(history.calculated_loss_history) + 1}
               /\ inst' = inst]_vars
    /\ [](run.pc \in {"train", "trained", "test", "failed"}
            => HistoryLengths = {run.batch_idx})
    /\ [](run.pc = "trained"
            => /\ HistoryLengths = {run.n_train}
               /\ Len(run.loss_details_history) = run.epoch + 1
               /\ Last(run.loss_details_history).Epoch = run.epoch
               /\ Last(run.loss_details_history).means
                    = BatchMeans(inst, run.batches)
               /\ Len(run.batches) = run.n_train)

\* The second epoch of two batches has ended, after the first epoch and its
\* test phase, with means other than the first epoch's.
C17_Witness ==
    /\ run.pc = "trained"
    /\ run.epoch = 1
    /\ run.n_train = 2
    /\ Len(run.test_metrics) = 1
    /\ run.loss_details_history[1].means # run.loss_details_history[2].means

\* C18: when the estimator fails on a batch of _train, the optimizer step
\* of that batch is not executed, the error leaves _train and run with no
\* retry, no later batch of the epoch is processed, and neither metrics nor
\* history means are recorded for the epoch.
C18_Propagation ==
    /\ [][(run.pc = "train" /\ raised' # "none")
            => /\ run'.pc = "failed"
               /\ run'.optimizer_steps = run.optimizer_steps
               /\ run'.batch_idx = run.batch_idx
               /\ run'.train_metrics = run.train_metrics
               /\ run'.loss_details_history = run.loss_details_history
               /\ history' = history]_vars
    /\ [][run.pc # "failed"]_vars
    /\ []((run.pc = "failed" /\ run.phase = "_train")
            => /\ raised # "none"
               /\ run.batch_idx < run.n_train
               /\ run.optimizer_steps = run.epoch * run.n_train + run.batch_idx
               /\ Len(run.train_metrics) = run.epoch
               /\ Len(run.loss_details_history) = run.epoch
               /\ ~run.csv_written)

\* The estimator failed on the second batch of the second epoch.
C18_Witness ==
    /\ run.pc = "failed"
    /\ run.phase = "_train"
    /\ raised = "AssertionError"
    /\ run.epoch = 1
    /\ run.batch_idx = 1
    /\ run.optimizer_steps = 3

(***************************************************************************)
(* The prior estimation.                                                   *)
(***************************************************************************)
\* The scores of the examples whose PU label is +1, in order, each once.
RECURSIVE LabeledPositiveScores(_)
LabeledPositiveScores(examples) ==
    IF examples = <<>> THEN <<>>
    ELSE (IF Head(examples).label = 1 THEN <<Head(examples).score>> ELSE <<>>)
         \o LabeledPositiveScores(Tail(examples))

\* The scores of all the examples, in order, each once.
AllScores(examples) == [i \in DOMAIN examples |-> examples[i].score]

\* The solver has been called.
Solved == est.pc \in {"batches", "done"}

\* C16: the solver is given the P-scores followed by the U-scores, where
\* the P-scores are the scores of the training examples whose label is +1,
\* in loader order, each once, and the U-scores the scores of every example
\* of the new dataset, together with the sizes of the two parts; the prior
\* the solver returns is returned unchanged and is the ratio_pi the
\* threshold ratio_tres of every batch is computed from.
C16_RatioPriorAsStated ==
    Solved
    => LET P_scores == LabeledPositiveScores(Concatenate(est.train_loader))
           U_scores == AllScores(Concatenate(est.new_data_loader))
       IN  /\ est.solver_x = P_scores \o U_scores
           /\ est.solver_t = <<Len(P_scores), Len(U_scores)>>
           /\ thr.ratio_pi = est.prior
           /\ \A i \in DOMAIN est.ratio_tres :
                 est.ratio_tres[i] = Tres(thr.pi, est.prior)
           /\ est.pc = "done" => Len(est.ratio_tres) = Len(est.new_data_loader)

\* The solver has been called on a training loader that holds a positive
\* example without a positive PU label.
C16_Witness ==
    /\ est.pc = "done"
    /\ \E i \in DOMAIN est.train_loader :
          \E j \in DOMAIN est.train_loader[i] :
             /\ est.train_loader[i][j].target = 1
             /\ est.train_loader[i][j].label = -1
    /\ est.solver_t[1]
         > Len(LabeledPositiveScores(Concatenate(est.train_loader)))

(***************************************************************************)
(* The correction weight of DRPUccLoss.                                    *)
(***************************************************************************)
\* C21: every DRPUccLoss instance that was constructed has its alpha equal
\* to its prior, a number in (0, 1), whatever alpha argument the
\* construction was given, no instance being constructed without a prior;
\* and forward weighs E_pn with that value in E_pp and in E_n.
C21_AlphaIsPrior ==
    /\ (pc # "start" /\ ctor.cls = "DRPUcc" /\ ctor.prior = NoValue)
         => pc = "failed" /\ inst = NoInstance
    /\ (pc = "constructed" /\ inst.name = "DRPUcc")
         => /\ inst.alpha = ctor.prior
            /\ inst.alpha = inst.prior
            /\ RLt(Zero, inst.alpha) /\ RLt(inst.alpha, One)
            /\ (DRPUReturned /\ BothPartitions)
                 => /\ locals.E_pp = Epp(inst.prior, x, target)
                    /\ locals.E_n = En(inst.prior, x, target)

\* A DRPU instance constructed with an alpha argument other than its prior
\* has returned from a call in which the two weights give different E_n.
C21_Witness ==
    /\ DRPUReturned
    /\ BothPartitions
    /\ ctor.alpha # NoValue
    /\ ctor.alpha # ctor.prior
    /\ locals.E_n # En(ctor.alpha, x, target)

(***************************************************************************)
(* The order of the two evaluations on new data.                           *)
(***************************************************************************)
NewPiPhase == "test_on_new_data_with_new_pi"

\* C22: the new-data metrics file is written only by a
\* test_on_new_data_with_new_pi that completes, and that only on an
\* experiment whose new_data_metrics test_on_new_data has set before; a
\* call that reaches its end with new_data_metrics still None fails with
\* AttributeError and writes no file.  In every state, a written file
\* implies new_data_metrics is not None.
C22_CallOrder ==
    [][(run.pc # "none" /\ run'.pc # "none")
       => /\ run'.new_data_metrics_file # NoValue
               => /\ run'.new_data_metrics # NoValue
                  /\ "test_on_new_data" \in run'.called
          /\ (run.phase = NewPiPhase /\ run.pc = "test" /\ run'.pc = "done")
               => /\ run.new_data_metrics # NoValue
                  /\ "test_on_new_data" \in run.called
                  /\ run'.new_data_metrics_file # NoValue
          /\ run'.new_data_metrics_file # run.new_data_metrics_file
               => /\ run.phase = NewPiPhase
                  /\ run'.pc = "done"
          /\ (run.phase = NewPiPhase /\ run.pc = "test"
                /\ "test_on_new_data" \notin run.called)
               => /\ run'.pc \in {"test", "failed"}
                  /\ run'.new_data_metrics = NoValue
                  /\ run'.new_data_metrics_file = NoValue
                  /\ (run.batch_idx = run.n_new /\ run' # run)
                       => raised' = "AttributeError"
      ]_vars

\* test_on_new_data_with_new_pi has completed after test_on_new_data and
\* has written the file, the metrics of the earlier call in it.
C22_Witness ==
    /\ run.pc = "done"
    /\ run.called = {"test_on_new_data", NewPiPhase}
    /\ run.new_data_metrics # NoValue
    /\ run.new_data_metrics_file # NoValue
    /\ run.new_data_metrics_file.not_adjusted = run.new_data_metrics

\* test_on_new_data_with_new_pi called first has failed at the read.
C22_CalledFirst ==
    /\ run.pc = "failed"
    /\ run.phase = NewPiPhase
    /\ run.called = {NewPiPhase}
    /\ raised = "AttributeError"
====
